---- MODULE Spec2Model ----
(***************************************************************************)
(* pyforestplot.arg_validators.check_data as a state machine.              *)
(*                                                                         *)
(* One call of check_data is followed from entry to its return or to the   *)
(* exception it raises.  Every block of the function body is one action,   *)
(* taken in program order (the function is single-threaded and has no      *)
(* suspension point, so the program counter alone orders the actions).     *)
(*                                                                         *)
(* A DataFrame is a function from column names to columns.  A column is a  *)
(* record  [dtype, nums, strs] : a numeric column ("int64" or "float64")   *)
(* keeps its values in nums, an "object" column keeps strings in strs.     *)
(* Numbers are taken on an integer grid; the dtype tag records whether     *)
(* pandas holds them as integers or as floating-point values.              *)
(***************************************************************************)
EXTENDS Integers, Sequences, FiniteSets, TLC

VARIABLES
    isDataFrame,          \* isinstance(dataframe, DataFrame)
    dataframe,            \* the table, mutated in place
    entry,                \* the table as it was passed in (never changed)
    estimate, varlabel, moerror, ll, hl,
    addannote, annoteheaders, rightannote, right_annoteheaders,
    pc,                   \* the block of check_data that runs next
    raised,               \* the exception that ended the call, if any
    warned                \* the warnings emitted so far, in order

args == <<isDataFrame, entry, estimate, varlabel, moerror, ll, hl,
          addannote, annoteheaders, rightannote, right_annoteheaders>>
vars == <<args, dataframe, pc, raised, warned>>

----------------------------------------------------------------------------
(* Bounds of the model *)

MaxVal == 2       \* numeric cells at entry range over 1..MaxVal
MaxRows == 1      \* tables of the value family have 1..MaxRows rows
MaxAnnot == 2     \* annotation and header lists have at most MaxAnnot entries

----------------------------------------------------------------------------
(* Values *)

None == "None"                      \* an optional column name left out

NoneArg == [kind |-> "None", items |-> <<>>]
ScalarArg == [kind |-> "scalar", items |-> <<>>]   \* a value that is not list-like
ListArg(s) == [kind |-> "list", items |-> s]

IntCol(ns) == [dtype |-> "int64", nums |-> ns, strs |-> <<>>]
FloatCol(ns) == [dtype |-> "float64", nums |-> ns, strs |-> <<>>]
ObjCol(ss) == [dtype |-> "object", nums |-> <<>>, strs |-> ss]

NoException == [type |-> "", msg |-> "", field |-> ""]
TypeError(m) == [type |-> "TypeError", msg |-> m, field |-> ""]
AssertionError(m) == [type |-> "AssertionError", msg |-> m, field |-> ""]
FieldError(col) ==
    [type |-> "AssertionError",
     msg |-> "the field {col} is not found in dataframe.", field |-> col]

MsgDataFrame == "Expect data as Pandas DataFrame"
MsgEstimate == "Estimates should be float or int"
MsgMoerror == "Margin of error values should be float or int"
MsgLl == "CI lowerlimit values should be float or int"
MsgHl == "CI higherlimit values should be float or int"
MsgNeedLlHl == "If \"moerror\" is not provided, then \"ll\" and \"hl\" must be provided."
MsgNeedMoerror == "If \"ll, hl\" is not provided, then \"moerror\" must be provided."
MsgAddListLike == "addannote should be list-like."
MsgHeadListLike == "annoteheaders should be list-like."
MsgRightListLike == "rightannote should be list-like."
MsgRightHeadListLike == "right_annoteheaders should be list-like."
MsgAddLength == "addannote and annoteheaders should have same length."
MsgRightLength == "rightannote and right_annoteheaders should have same length."
WarnAdd == "{varlabel} is a variable is already printed. Specifying {varlabel} in \"addannote\" will lead to duplicate printing of {varlabel}."
WarnRightShort == "{varlabel} is a variable is already printed."
WarnRight == "{varlabel} is a variable is already printed. Specifying {varlabel} in \"rightannote\" will lead to duplicate printing of {varlabel}."

acceptable_annotations == {"ci_range", "est_ci", "formatted_pval"}

----------------------------------------------------------------------------
(* pandas operations used by check_data *)

Range(s) == {s[i] : i \in DOMAIN s}

\* float(s) of a string: the strings of the model that spell a number
ParsesAsFloat(s) == s \in {"1", "2", "3"}
Float(s) == IF s = "1" THEN 1 ELSE IF s = "2" THEN 2 ELSE 3

is_numeric_dtype(col) == col.dtype \in {"int64", "float64"}

\* Series.astype(float) raises ValueError when some string spells no number
AsTypeRaises(col) ==
    col.dtype = "object" /\ \E i \in DOMAIN col.strs : ~ParsesAsFloat(col.strs[i])

AsTypeFloat(col) ==
    IF col.dtype = "object"
    THEN FloatCol([i \in DOMAIN col.strs |-> Float(col.strs[i])])
    ELSE FloatCol(col.nums)

ResultDtype(a, b) ==
    IF a.dtype = "float64" \/ b.dtype = "float64" THEN "float64" ELSE "int64"

\* Minus with its operands exchanged
MinusSwapped(a, b) ==
    [dtype |-> ResultDtype(a, b),
     nums |-> [i \in DOMAIN a.nums |-> b.nums[i] - a.nums[i]],
     strs |-> <<>>]

\* Series - Series and Series + Series, row by row
Minus(a, b) ==
    [dtype |-> ResultDtype(a, b),
     nums |-> [i \in DOMAIN a.nums |-> a.nums[i] - b.nums[i]],
     strs |-> <<>>]

Plus(a, b) ==
    [dtype |-> ResultDtype(a, b),
     nums |-> [i \in DOMAIN a.nums |-> a.nums[i] + b.nums[i]],
     strs |-> <<>>]

\* dataframe[name] = col : replaces the column of that name or adds it
SetColumn(df, name, col) ==
    [c \in DOMAIN df \cup {name} |-> IF c = name THEN col ELSE df[c]]

is_list_like(a) == a.kind = "list"

Contains(a, x) == x \in Range(a.items)

----------------------------------------------------------------------------
(* The decisions of check_data, block by block *)

\* lines 54-79: does the coercion of the column passed for one role raise?
CoerceRaises(df, name) ==
    ~is_numeric_dtype(df[name]) /\ AsTypeRaises(df[name])

\* Coerced without the is_numeric_dtype test: every role column is cast
CoercedAlways(df, name) == SetColumn(df, name, AsTypeFloat(df[name]))

\* lines 54-79: the table after the coercion of that column
Coerced(df, name) ==
    IF is_numeric_dtype(df[name])
    THEN df
    ELSE SetColumn(df, name, AsTypeFloat(df[name]))

\* CompletenessError without the test of line 85: ll and hl always required
CompletenessErrorBothRequired(m, l, h) ==
    IF ~(l # None /\ h # None) THEN MsgNeedLlHl ELSE ""

\* CompletenessError with "or" for the "&" of line 87
CompletenessErrorEither(m, l, h) ==
    IF m = None /\ ~(l # None \/ h # None)
    THEN MsgNeedLlHl
    ELSE IF (l = None \/ h = None) /\ ~(m # None)
         THEN MsgNeedMoerror
         ELSE ""

\* lines 85-99: the message of the completeness error, "" when the check passes
CompletenessError(m, l, h) ==
    IF m = None /\ ~(l # None /\ h # None)
    THEN MsgNeedLlHl
    ELSE IF (l = None \/ h = None) /\ ~(m # None)
         THEN MsgNeedMoerror
         ELSE ""

\* Derive with the upper limit computed like the lower one
DeriveUpperAsLower(df, est, m, l, h) ==
    LET d1 == IF m = None
              THEN SetColumn(df, "moerror", Minus(df[est], df[l]))
              ELSE df
        d2 == IF l = None
              THEN SetColumn(d1, "ll", Minus(d1[est], d1[m]))
              ELSE d1
    IN  IF h = None
        THEN SetColumn(d2, "hl", Minus(d2[est], d2[m]))
        ELSE d2

\* Derive with the upper limit written under the name "hi"
DeriveMisnamed(df, est, m, l, h) ==
    LET d1 == IF m = None
              THEN SetColumn(df, "moerror", Minus(df[est], df[l]))
              ELSE df
        d2 == IF l = None
              THEN SetColumn(d1, "ll", Minus(d1[est], d1[m]))
              ELSE d1
    IN  IF h = None
        THEN SetColumn(d2, "hi", Plus(d2[est], d2[m]))
        ELSE d2

\* lines 102-109: the three derivations, one after the other on the same table
Derive(df, est, m, l, h) ==
    LET d1 == IF m = None
              THEN SetColumn(df, "moerror", Minus(df[est], df[l]))
              ELSE df
        d2 == IF l = None
              THEN SetColumn(d1, "ll", Minus(d1[est], d1[m]))
              ELSE d1
    IN  IF h = None
        THEN SetColumn(d2, "hl", Plus(d2[est], d2[m]))
        ELSE d2

\* ListLikeError with rightannote examined before annoteheaders
ListLikeErrorReordered(add, head, right, rhead) ==
    IF add # NoneArg /\ ~is_list_like(add) THEN MsgAddListLike
    ELSE IF right # NoneArg /\ ~is_list_like(right) THEN MsgRightListLike
    ELSE IF head # NoneArg /\ ~is_list_like(head) THEN MsgHeadListLike
    ELSE IF rhead # NoneArg /\ ~is_list_like(rhead) THEN MsgRightHeadListLike
    ELSE ""

\* lines 114-136: the message of the first list-like check that fails, or ""
ListLikeError(add, head, right, rhead) ==
    IF add # NoneArg /\ ~is_list_like(add) THEN MsgAddListLike
    ELSE IF head # NoneArg /\ ~is_list_like(head) THEN MsgHeadListLike
    ELSE IF right # NoneArg /\ ~is_list_like(right) THEN MsgRightListLike
    ELSE IF rhead # NoneArg /\ ~is_list_like(rhead) THEN MsgRightHeadListLike
    ELSE ""

\* PairLengthError with rightannote measured against annoteheaders
PairLengthErrorWrongHeaders(add, head, right, rhead) ==
    IF add # NoneArg /\ head # NoneArg /\ Len(add.items) # Len(head.items)
    THEN MsgAddLength
    ELSE IF right # NoneArg /\ rhead # NoneArg
            /\ Len(right.items) # Len(head.items)
         THEN MsgRightLength
         ELSE ""

\* lines 142-155: the message of the first pair whose lengths differ, or ""
PairLengthError(add, head, right, rhead) ==
    IF add # NoneArg /\ head # NoneArg /\ Len(add.items) # Len(head.items)
    THEN MsgAddLength
    ELSE IF right # NoneArg /\ rhead # NoneArg
            /\ Len(right.items) # Len(rhead.items)
         THEN MsgRightLength
         ELSE ""

\* Found without the acceptable annotations
FoundColumnOnly(col, columns) == col \in columns

\* lines 169, 176: the assertion on one annotation entry
Found(col, columns) == col \in columns \/ col \in acceptable_annotations

\* lines 167-171, 174-178: the positions of a list whose entry is not found
NotFound(a, columns) ==
    IF a = NoneArg THEN {}
    ELSE {i \in DOMAIN a.items : ~Found(a.items[i], columns)}

First(S) == CHOOSE i \in S : \A j \in S : i <= j

\* lines 166-178: the entry the membership loops stop at, None when none does
MembershipError(add, right, columns) ==
    IF NotFound(add, columns) # {}
    THEN add.items[First(NotFound(add, columns))]
    ELSE IF NotFound(right, columns) # {}
         THEN right.items[First(NotFound(right, columns))]
         ELSE None

\* Warnings with a single warning for rightannote
WarningsOnePerSide(label, add, right) ==
    (IF add # NoneArg /\ Contains(add, label) THEN <<WarnAdd>> ELSE <<>>)
    \o (IF right # NoneArg /\ Contains(right, label)
        THEN <<WarnRight>>
        ELSE <<>>)

\* lines 184-194: the warnings of one call, in the order they are emitted
Warnings(label, add, right) ==
    (IF add # NoneArg /\ Contains(add, label) THEN <<WarnAdd>> ELSE <<>>)
    \o (IF right # NoneArg /\ Contains(right, label)
        THEN <<WarnRightShort, WarnRight>>
        ELSE <<>>)

----------------------------------------------------------------------------
(* The inputs of a call *)

DerivedNames == {"moerror", "ll", "hl"}

LabelCol(r) == ObjCol([i \in 1..r |-> "age"])

\* integer columns of r rows
IntCols(r) == {IntCol(ns) : ns \in [1..r -> 1..MaxVal]}

\* one-row columns of every kind: integer, numeric strings, other strings
DtypeCols == {IntCol(<<1>>), ObjCol(<<"2">>), ObjCol(<<"x">>)}

AnnotNames == {"var", "ll", "ci_range", "zz", "yy"}
AnnotArgs ==
    {NoneArg, ScalarArg}
    \cup {ListArg(s) : s \in UNION {[1..n -> AnnotNames] : n \in 0..MaxAnnot}}
HeaderArgs ==
    {NoneArg, ScalarArg}
    \cup {ListArg([i \in 1..n |-> "h"]) : n \in 0..MaxAnnot}
SmallAnnotArgs == {NoneArg, ScalarArg, ListArg(<<"var">>), ListArg(<<"zz">>)}
SmallHeaderArgs == {NoneArg, ListArg(<<>>), ListArg(<<"h">>)}

NoAnnotations ==
    /\ addannote = NoneArg
    /\ annoteheaders = NoneArg
    /\ rightannote = NoneArg
    /\ right_annoteheaders = NoneArg

Start ==
    /\ entry = dataframe
    /\ varlabel = "var"
    /\ pc = "type_check"
    /\ raised = NoException
    /\ warned = <<>>

\* Tables of integer columns of every size and value; every role, when it is
\* passed, names the column of its own name.
InitValues ==
    /\ isDataFrame = TRUE
    /\ \E r \in 1..MaxRows : \E present \in SUBSET DerivedNames :
         \E f \in [present \cup {"est"} -> IntCols(r)] :
            /\ dataframe = f @@ ("var" :> LabelCol(r))
            /\ estimate = "est"
            /\ moerror \in {None} \cup ({"moerror"} \cap present)
            /\ ll \in {None} \cup ({"ll"} \cap present)
            /\ hl \in {None} \cup ({"hl"} \cap present)
    /\ NoAnnotations
    /\ Start

\* One-row tables of columns of every dtype; the roles name any columns of
\* the table, different roles different columns.
InitDtypes ==
    /\ isDataFrame = TRUE
    /\ \E present \in SUBSET DerivedNames :
         \E f \in [present \cup {"est"} -> DtypeCols] :
            /\ dataframe = f @@ ("var" :> LabelCol(1))
            /\ estimate \in DOMAIN f
            /\ moerror \in {None} \cup (DOMAIN f \ {estimate})
            /\ ll \in {None} \cup (DOMAIN f \ {estimate, moerror})
            /\ hl \in {None} \cup (DOMAIN f \ {estimate, moerror, ll})
    /\ NoAnnotations
    /\ Start

\* One-row tables whose interval columns bear names of the caller's own
\* ("m", "lo", "hi") and which may also hold columns named "moerror", "ll",
\* "hl" that are passed for no role.
InitOwnNames ==
    /\ isDataFrame = TRUE
    /\ \E own \in SUBSET {"m", "lo", "hi"} : \E other \in SUBSET DerivedNames :
         \E g \in [other -> {IntCol(<<2>>), ObjCol(<<"x">>)}] :
            /\ dataframe = g @@ [c \in own |-> IntCol(<<1>>)]
                             @@ ("est" :> IntCol(<<2>>))
                             @@ ("var" :> LabelCol(1))
            /\ estimate = "est"
            /\ moerror \in {None} \cup ({"m"} \cap own)
            /\ ll \in {None} \cup ({"lo"} \cap own)
            /\ hl \in {None} \cup ({"hi"} \cap own)
    /\ NoAnnotations
    /\ Start

\* The calls the annotation arguments are varied on: one that is not given a
\* DataFrame, one whose estimates are no numbers, one that gives no interval,
\* and one that gives the margin of error.
Scenarios ==
    {[isdf |-> FALSE, df |-> <<>>, m |-> None],
     [isdf |-> TRUE, m |-> "moerror",
      df |-> ("var" :> LabelCol(1)) @@ ("est" :> ObjCol(<<"x">>))
             @@ ("moerror" :> IntCol(<<1>>))],
     [isdf |-> TRUE, m |-> None,
      df |-> ("var" :> LabelCol(1)) @@ ("est" :> IntCol(<<2>>))
             @@ ("moerror" :> IntCol(<<1>>))],
     [isdf |-> TRUE, m |-> "moerror",
      df |-> ("var" :> LabelCol(1)) @@ ("est" :> IntCol(<<2>>))
             @@ ("moerror" :> IntCol(<<1>>))]}

\* Every annotation list with every header list on one side, a few on the other.
InitAnnotations ==
    /\ \E s \in Scenarios :
         /\ isDataFrame = s.isdf
         /\ dataframe = s.df
         /\ moerror = s.m
    /\ estimate = "est"
    /\ ll = None
    /\ hl = None
    /\ \/ /\ addannote \in AnnotArgs
          /\ annoteheaders \in HeaderArgs
          /\ rightannote \in SmallAnnotArgs
          /\ right_annoteheaders \in SmallHeaderArgs
       \/ /\ addannote \in SmallAnnotArgs
          /\ annoteheaders \in SmallHeaderArgs
          /\ rightannote \in AnnotArgs
          /\ right_annoteheaders \in HeaderArgs
    /\ Start

Init == InitValues \/ InitDtypes \/ InitOwnNames \/ InitAnnotations

----------------------------------------------------------------------------
(* The blocks of check_data *)

Raise(e) ==
    /\ pc' = "raised"
    /\ raised' = e
    /\ UNCHANGED <<args, dataframe, warned>>

Goto(next) ==
    /\ pc' = next
    /\ UNCHANGED <<args, raised, warned>>

\* lines 51-52
TypeCheck ==
    /\ pc = "type_check"
    /\ IF ~isDataFrame
       THEN Raise(TypeError(MsgDataFrame))
       ELSE Goto("coerce_estimate") /\ UNCHANGED dataframe

\* lines 54-58
CoerceEstimate ==
    /\ pc = "coerce_estimate"
    /\ IF CoerceRaises(dataframe, estimate)
       THEN Raise(TypeError(MsgEstimate))
       ELSE /\ dataframe' = Coerced(dataframe, estimate)
            /\ Goto("coerce_moerror")

\* lines 60-65
CoerceMoerror ==
    /\ pc = "coerce_moerror"
    /\ IF moerror # None /\ CoerceRaises(dataframe, moerror)
       THEN Raise(TypeError(MsgMoerror))
       ELSE /\ dataframe' = IF moerror # None
                            THEN Coerced(dataframe, moerror)
                            ELSE dataframe
            /\ Goto("coerce_ll")

\* lines 67-72
CoerceLl ==
    /\ pc = "coerce_ll"
    /\ IF ll # None /\ CoerceRaises(dataframe, ll)
       THEN Raise(TypeError(MsgLl))
       ELSE /\ dataframe' = IF ll # None
                            THEN Coerced(dataframe, ll)
                            ELSE dataframe
            /\ Goto("coerce_hl")

\* lines 74-79
CoerceHl ==
    /\ pc = "coerce_hl"
    /\ IF hl # None /\ CoerceRaises(dataframe, hl)
       THEN Raise(TypeError(MsgHl))
       ELSE /\ dataframe' = IF hl # None
                            THEN Coerced(dataframe, hl)
                            ELSE dataframe
            /\ Goto("completeness")

\* lines 85-99
Completeness ==
    /\ pc = "completeness"
    /\ IF CompletenessError(moerror, ll, hl) # ""
       THEN Raise(AssertionError(CompletenessError(moerror, ll, hl)))
       ELSE Goto("derive") /\ UNCHANGED dataframe

\* lines 101-109
Derivation ==
    /\ pc = "derive"
    /\ dataframe' = Derive(dataframe, estimate, moerror, ll, hl)
    /\ Goto("list_like")

\* lines 114-136
ListLike ==
    /\ pc = "list_like"
    /\ LET e == ListLikeError(addannote, annoteheaders,
                              rightannote, right_annoteheaders)
       IN  IF e # ""
           THEN Raise(TypeError(e))
           ELSE Goto("pair_length") /\ UNCHANGED dataframe

\* lines 142-155
PairLength ==
    /\ pc = "pair_length"
    /\ LET e == PairLengthError(addannote, annoteheaders,
                                rightannote, right_annoteheaders)
       IN  IF e # ""
           THEN Raise(AssertionError(e))
           ELSE Goto("membership") /\ UNCHANGED dataframe

\* lines 160-178
Membership ==
    /\ pc = "membership"
    /\ LET col == MembershipError(addannote, rightannote, DOMAIN dataframe)
       IN  IF col # None
           THEN Raise(FieldError(col))
           ELSE Goto("warnings") /\ UNCHANGED dataframe

\* lines 184-202
WarnAndReturn ==
    /\ pc = "warnings"
    /\ warned' = warned \o Warnings(varlabel, addannote, rightannote)
    /\ pc' = "returned"
    /\ UNCHANGED <<args, dataframe, raised>>

Next ==
    \/ TypeCheck
    \/ CoerceEstimate
    \/ CoerceMoerror
    \/ CoerceLl
    \/ CoerceHl
    \/ Completeness
    \/ Derivation
    \/ ListLike
    \/ PairLength
    \/ Membership
    \/ WarnAndReturn

Spec == Init /\ [][Next]_vars

----------------------------------------------------------------------------
(* Vocabulary of the properties, stated on the arguments of the call *)

Returned == pc = "returned"
Failed == pc = "raised"
Done == Returned \/ Failed

Roles == <<estimate, moerror, ll, hl>>
RoleMsgs == <<MsgEstimate, MsgMoerror, MsgLl, MsgHl>>
SuppliedColumns == {Roles[i] : i \in 1..4} \ {None}

\* the names check_data writes the columns of the roles left out under
UnsuppliedNames ==
    (IF moerror = None THEN {"moerror"} ELSE {})
    \cup (IF ll = None THEN {"ll"} ELSE {})
    \cup (IF hl = None THEN {"hl"} ELSE {})

\* no column passed for a role bears the name of a column to be derived
NoCollision == UnsuppliedNames \cap SuppliedColumns = {}

Numeric(col) == col.dtype \in {"int64", "float64"}
Parsable(col) == \A i \in DOMAIN col.strs : ParsesAsFloat(col.strs[i])
NumValues(col) ==
    IF col.dtype = "object"
    THEN [i \in DOMAIN col.strs |-> Float(col.strs[i])]
    ELSE col.nums

\* the roles, in the order of the code, whose column cannot be made numeric
BadRoles ==
    {i \in 1..4 : Roles[i] # None /\ ~Numeric(entry[Roles[i]])
                  /\ ~Parsable(entry[Roles[i]])}
NumericEntry ==
    isDataFrame /\ \A c \in SuppliedColumns : Numeric(entry[c])
CoercionPasses == isDataFrame /\ BadRoles = {}

CISupplied == moerror # None \/ (ll # None /\ hl # None)
CompletenessMsgs == {MsgNeedLlHl, MsgNeedMoerror}

AnnotationArgs ==
    <<addannote, annoteheaders, rightannote, right_annoteheaders>>
ListLikeMsgs ==
    <<MsgAddListLike, MsgHeadListLike, MsgRightListLike, MsgRightHeadListLike>>
NotListLike == {i \in 1..4 : AnnotationArgs[i].kind = "scalar"}
AddPairMismatch ==
    /\ addannote.kind = "list" /\ annoteheaders.kind = "list"
    /\ Len(addannote.items) # Len(annoteheaders.items)
RightPairMismatch ==
    /\ rightannote.kind = "list" /\ right_annoteheaders.kind = "list"
    /\ Len(rightannote.items) # Len(right_annoteheaders.items)

\* the entries of addannote, then those of rightannote
AnnotationEntries == addannote.items \o rightannote.items
Offending(columns) ==
    {i \in DOMAIN AnnotationEntries :
        /\ AnnotationEntries[i] \notin columns
        /\ AnnotationEntries[i] \notin {"ci_range", "est_ci", "formatted_pval"}}

ShapePasses ==
    CoercionPasses /\ CISupplied /\ NotListLike = {}
    /\ ~AddPairMismatch /\ ~RightPairMismatch

\* the first check of the documented sequence that the arguments fail
FailingStep ==
    IF ~isDataFrame THEN "table type"
    ELSE IF BadRoles # {} THEN RoleMsgs[First(BadRoles)]
    ELSE IF ~CISupplied THEN "completeness"
    ELSE IF NotListLike # {} THEN ListLikeMsgs[First(NotListLike)]
    ELSE IF AddPairMismatch THEN MsgAddLength
    ELSE IF RightPairMismatch THEN MsgRightLength
    ELSE IF Offending(DOMAIN entry \cup UnsuppliedNames) # {} THEN "membership"
    ELSE "none"

\* the check an exception comes from
StepOf(e) ==
    IF e = NoException THEN "none"
    ELSE IF e.msg = MsgDataFrame THEN "table type"
    ELSE IF e.msg \in CompletenessMsgs THEN "completeness"
    ELSE IF e.field # "" THEN "membership"
    ELSE e.msg

----------------------------------------------------------------------------
(* Properties *)

PastCompleteness ==
    pc \in {"derive", "list_like", "pair_length", "membership", "warnings",
            "returned"}

\* C1: on a DataFrame whose supplied estimate/moerror/ll/hl columns are all
\* numeric, the call gets past the completeness check exactly when moerror
\* is supplied or both ll and hl are; otherwise it ends with an
\* AssertionError of the completeness check.
C1_CompletenessIff ==
    NumericEntry =>
        /\ PastCompleteness => CISupplied
        /\ Failed =>
             /\ CISupplied => raised.msg \notin CompletenessMsgs
             /\ ~CISupplied => /\ raised.type = "AssertionError"
                               /\ raised.msg \in CompletenessMsgs

\* C1 witness: moerror together with ll alone got past the check.
C1_Witness ==
    /\ NumericEntry /\ pc = "derive"
    /\ moerror # None /\ ll # None /\ hl = None

\* C9 as stated: with moerror absent and ll or hl absent, the call ends with
\* the AssertionError whose message is the second one of the completeness
\* block.
C9_SecondMessage ==
    (Done /\ CoercionPasses /\ moerror = None /\ (ll = None \/ hl = None))
        => raised = AssertionError(MsgNeedMoerror)

\* C9 amended: with moerror absent and ll or hl absent, the call ends with
\* the AssertionError whose message is the first one of the completeness
\* block, and no call ever ends with the second message.
C9_FirstMessage ==
    /\ (Done /\ CoercionPasses /\ moerror = None /\ (ll = None \/ hl = None))
          => raised = AssertionError(MsgNeedLlHl)
    /\ raised.msg # MsgNeedMoerror

\* C9 witness: only ll was supplied and the call ended with the first message.
C9_Witness ==
    /\ Failed /\ raised.msg = MsgNeedLlHl
    /\ moerror = None /\ ll # None /\ hl = None

\* C10: a call ends at the first failing check of the sequence table type,
\* coercion (estimate, moerror, ll, hl), completeness, list-like, pair
\* length, membership, and returns when none fails; a failed call has
\* emitted no warning, and one that failed at the type, coercion or
\* completeness check has added no column to the table.
C10_FailFast ==
    /\ Done => StepOf(raised) = FailingStep
    /\ Returned <=> (Done /\ raised = NoException)
    /\ ~Returned => warned = <<>>
    /\ (Failed /\ (~CoercionPasses \/ ~CISupplied))
          => DOMAIN dataframe = DOMAIN entry

\* C10 witness: a call that gave no interval ended at the completeness check
\* although its annotation lists would also have failed and warned; no column
\* was added and no warning emitted.
C10_Witness ==
    /\ Failed /\ StepOf(raised) = "completeness"
    /\ AddPairMismatch /\ "var" \in Range(addannote.items)
    /\ "zz" \in Range(rightannote.items)
    /\ warned = <<>> /\ "ll" \notin DOMAIN dataframe


----------------------------------------------------------------------------
(* The confidence-interval columns *)

\* column c is a - b, resp. a + b, in every row
IsDifference(c, a, b) ==
    /\ DOMAIN c.nums = DOMAIN a.nums
    /\ \A i \in DOMAIN c.nums : c.nums[i] = a.nums[i] - b.nums[i]
IsSum(c, a, b) ==
    /\ DOMAIN c.nums = DOMAIN a.nums
    /\ \A i \in DOMAIN c.nums : c.nums[i] = a.nums[i] + b.nums[i]

\* the columns in effect when the call returns: the column the caller named
\* for the role, otherwise the derived one
EstimateCol == dataframe[estimate]
MarginCol == IF moerror # None THEN dataframe[moerror] ELSE dataframe["moerror"]
LowerCol == IF ll # None THEN dataframe[ll] ELSE dataframe["ll"]
UpperCol == IF hl # None THEN dataframe[hl] ELSE dataframe["hl"]

\* C2 as stated: after a successful call, with ll and hl given and moerror
\* left out, column "moerror" is estimate - ll in every row and the hl column
\* has the values it had at entry; with moerror given and ll, hl left out,
\* column "ll" is estimate - moerror and column "hl" is estimate + moerror.
C2_DerivedColumns ==
    Returned =>
        /\ (moerror = None /\ ll # None /\ hl # None) =>
              /\ IsDifference(dataframe["moerror"], EstimateCol, dataframe[ll])
              /\ dataframe[hl].nums = NumValues(entry[hl])
        /\ (moerror # None /\ ll = None /\ hl = None) =>
              /\ IsDifference(dataframe["ll"], EstimateCol, dataframe[moerror])
              /\ IsSum(dataframe["hl"], EstimateCol, dataframe[moerror])

\* C2 amended: the same, provided no column passed for a role bears the name
\* ("moerror", "ll" or "hl") of a column the call derives.
C2_DerivedColumnsNoCollision ==
    (Returned /\ NoCollision) =>
        /\ (moerror = None /\ ll # None /\ hl # None) =>
              /\ IsDifference(dataframe["moerror"], EstimateCol, dataframe[ll])
              /\ dataframe[hl].nums = NumValues(entry[hl])
        /\ (moerror # None /\ ll = None /\ hl = None) =>
              /\ IsDifference(dataframe["ll"], EstimateCol, dataframe[moerror])
              /\ IsSum(dataframe["hl"], EstimateCol, dataframe[moerror])

\* C2 witness: the example of the specification on the grid, est = 2 and
\* moerror = 1 giving ll = 1 and hl = 3.
C2_Witness ==
    /\ Returned /\ NoCollision
    /\ moerror = "moerror" /\ ll = None /\ hl = None
    /\ dataframe["est"].nums = <<2>> /\ dataframe["moerror"].nums = <<1>>
    /\ dataframe["ll"].nums = <<1>> /\ dataframe["hl"].nums = <<3>>

\* C3 as stated: after every successful call the columns in effect satisfy
\* lower = estimate - margin, upper = estimate + margin and
\* margin = estimate - lower in every row, whatever was supplied.
C3_MutuallyConsistent ==
    Returned =>
        /\ IsDifference(LowerCol, EstimateCol, MarginCol)
        /\ IsSum(UpperCol, EstimateCol, MarginCol)
        /\ IsDifference(MarginCol, EstimateCol, LowerCol)

\* C3 amended: after a successful call, each column the call derived
\* satisfies its own equation with the columns in effect (a derived margin is
\* estimate - lower, a derived lower limit is estimate - margin, a derived
\* upper limit is estimate + margin), provided no column passed for a role
\* bears the name of a derived column; nothing relates two supplied columns.
C3_DerivedConsistent ==
    (Returned /\ NoCollision) =>
        /\ moerror = None => IsDifference(MarginCol, EstimateCol, LowerCol)
        /\ ll = None => IsDifference(LowerCol, EstimateCol, MarginCol)
        /\ hl = None => IsSum(UpperCol, EstimateCol, MarginCol)

\* C3 witness: moerror and ll were supplied, hl was derived from moerror, and
\* the supplied lower limit is not estimate - margin.
C3_Witness ==
    /\ Returned /\ NoCollision
    /\ moerror # None /\ ll # None /\ hl = None
    /\ IsSum(UpperCol, EstimateCol, MarginCol)
    /\ ~IsDifference(LowerCol, EstimateCol, MarginCol)

\* C4 as stated: a successful call deletes no column, adds exactly the
\* columns "moerror", "ll", "hl" of the roles left out, and leaves every
\* column of the entry table that is not a caller-named estimate, moerror, ll
\* or hl column with the values it had.
C4_Frame ==
    Returned =>
        /\ DOMAIN dataframe = DOMAIN entry \cup UnsuppliedNames
        /\ \A c \in DOMAIN entry \ SuppliedColumns : dataframe[c] = entry[c]

\* C4 amended: a successful call deletes no column, adds or overwrites exactly
\* the columns "moerror", "ll", "hl" of the roles left out, and leaves every
\* column of the entry table that is neither a caller-named role column nor
\* named after a role left out with the values it had.
C4_FrameExceptDerived ==
    Returned =>
        /\ DOMAIN dataframe = DOMAIN entry \cup UnsuppliedNames
        /\ \A c \in DOMAIN entry \ (SuppliedColumns \cup UnsuppliedNames) :
              dataframe[c] = entry[c]
        /\ \A c \in UnsuppliedNames : Numeric(dataframe[c])

\* C4 witness: the table had string columns "ll" and "hl" passed for no
\* role; the caller gave moerror and hl under names of its own, so that the
\* call overwrote "ll" with estimate - moerror and left "hl" as it was.
C4_Witness ==
    /\ Returned
    /\ moerror = "m" /\ ll = None /\ hl = "hi"
    /\ {"ll", "hl"} \subseteq DOMAIN entry
    /\ entry["ll"] = ObjCol(<<"x">>) /\ entry["hl"] = ObjCol(<<"x">>)
    /\ dataframe["ll"] = IntCol(<<1>>)
    /\ dataframe["hl"] = entry["hl"]
    /\ dataframe["var"] = entry["var"]

\* C5 as stated: after a successful call a supplied role column that was
\* numeric is as it was and one that held numeric strings holds
\* floating-point values; when some supplied role column cannot be coerced
\* the call ends with the TypeError of the first such role in the order
\* estimate, moerror, ll, hl.
C5_Coercion ==
    /\ Returned => \A c \in SuppliedColumns :
          /\ Numeric(entry[c]) => dataframe[c] = entry[c]
          /\ ~Numeric(entry[c]) => dataframe[c].dtype = "float64"
    /\ (Done /\ isDataFrame /\ BadRoles # {})
          => raised = TypeError(RoleMsgs[First(BadRoles)])
    /\ \A i \in 1..4 : raised.msg = RoleMsgs[i]
          => (BadRoles # {} /\ i = First(BadRoles))

\* C5 amended: the same, for the supplied role columns that do not bear the
\* name of a column the call derives; the floating-point values are the
\* numbers the strings spell.
C5_CoercionNotOverwritten ==
    /\ Returned => \A c \in SuppliedColumns \ UnsuppliedNames :
          /\ Numeric(entry[c]) => dataframe[c] = entry[c]
          /\ ~Numeric(entry[c]) => dataframe[c] = FloatCol(NumValues(entry[c]))
    /\ (Done /\ isDataFrame /\ BadRoles # {})
          => raised = TypeError(RoleMsgs[First(BadRoles)])
    /\ \A i \in 1..4 : raised.msg = RoleMsgs[i]
          => (BadRoles # {} /\ i = First(BadRoles))

\* C5 witness: the estimates were numeric strings and became floating-point
\* values, and the call returned.
C5_Witness ==
    /\ Returned
    /\ entry[estimate] = ObjCol(<<"2">>)
    /\ dataframe[estimate] = FloatCol(<<2>>)

\* C5 second case: two role columns cannot be coerced and the error names the
\* first of them, the margin of error.
C5_WitnessOrder ==
    /\ Failed /\ raised = TypeError(MsgMoerror)
    /\ Cardinality(BadRoles) = 2

\* C6: when every earlier check passes, the call fails exactly when some
\* entry of addannote or rightannote is neither a column of the table nor an
\* acceptable annotation, and the AssertionError names the first such entry
\* of addannote followed by rightannote.
C6_Membership ==
    (Done /\ ShapePasses) =>
        /\ Failed <=> Offending(DOMAIN dataframe) # {}
        /\ Failed =>
              raised = [type |-> "AssertionError",
                        msg |-> "the field {col} is not found in dataframe.",
                        field |-> AnnotationEntries[
                                      First(Offending(DOMAIN dataframe))]]

\* C6 witness: addannote holds the derived column "ll" and then "yy",
\* rightannote holds "zz"; the error names "yy".
C6_Witness ==
    /\ Failed /\ ShapePasses
    /\ addannote.items = <<"ll", "yy">>
    /\ rightannote.items = <<"zz">>
    /\ raised.field = "yy"

\* C7: a call that returns has no annotation list whose length differs from
\* that of its header list; once the list-like checks pass, a mismatch in the
\* first pair ends the call with the AssertionError of that pair, otherwise
\* one in the second pair with the AssertionError of the second pair; and
\* neither error ever comes from a pair of which only one member is supplied.
C7_PairLength ==
    /\ Returned => (~AddPairMismatch /\ ~RightPairMismatch)
    /\ (Done /\ CoercionPasses /\ CISupplied /\ NotListLike = {}) =>
          /\ AddPairMismatch => raised = AssertionError(MsgAddLength)
          /\ (~AddPairMismatch /\ RightPairMismatch)
                => raised = AssertionError(MsgRightLength)
    /\ raised.msg = MsgAddLength => AddPairMismatch
    /\ raised.msg = MsgRightLength => RightPairMismatch

\* C7 witness: rightannote has one entry and right_annoteheaders two, and the
\* call ended with the error of that pair; addannote came without headers.
C7_Witness ==
    /\ Failed /\ raised = AssertionError(MsgRightLength)
    /\ Len(rightannote.items) = 1 /\ Len(right_annoteheaders.items) = 2
    /\ addannote.kind = "list" /\ annoteheaders = NoneArg

\* C8: a call that passes every check returns, and the number of warnings of
\* a call that returns is 1 if varlabel is an entry of addannote, plus 2 if it
\* is an entry of rightannote.
C8_Warnings ==
    /\ (Done /\ ShapePasses
          /\ Offending(DOMAIN entry \cup UnsuppliedNames) = {}) => Returned
    /\ Returned =>
          Len(warned) =
              (IF varlabel \in Range(addannote.items) THEN 1 ELSE 0)
              + (IF varlabel \in Range(rightannote.items) THEN 2 ELSE 0)

\* C8 witness: varlabel is an entry of both lists and the call returned with
\* three warnings.
C8_Witness ==
    /\ Returned /\ Len(warned) = 3
    /\ varlabel \in Range(addannote.items)
    /\ varlabel \in Range(rightannote.items)

====
